---- MODULE Spec2Model ----
(***************************************************************************)
(* Model of src/app.py: a Streamlit page that collects a transaction,      *)
(* derives a feature row and asks a cached, pre-trained classifier for a   *)
(* fraud verdict.                                                          *)
(*                                                                         *)
(* Streamlit executes the whole script top to bottom once per user         *)
(* interaction (a "run").  One action of this model is one such run,       *)
(* together with the interaction that caused it.  The state is what        *)
(* survives between runs: the artifacts on disk, the process' string-hash  *)
(* key, the st.cache_resource entry of load_model, the widget values of    *)
(* the session, and what the last run did and rendered.                    *)
(*                                                                         *)
(* Units.  Amounts and coordinates are whole numbers (dollars, degrees).   *)
(* Probabilities are counted in 1/ProbScale.  A confidence is shown as a   *)
(* percentage with two decimals and is kept in hundredths of a percent.    *)
(***************************************************************************)
EXTENDS Integers, Sequences, FiniteSets, TLC

VARIABLES
    modelFile,     \* fraud_detection_model.jb on disk
    encoderFile,   \* label_encoder.jb on disk
    hashSeed,      \* the process' key for hash() of str (PYTHONHASHSEED)
    cached,        \* st.cache_resource holds a result of load_model()
    model,         \* the cached model object (line 118)
    encoder,       \* the cached encoder object (line 118)
    form,          \* the widget values of the session (lines 172-202)
    run,           \* what the last script run did and rendered
    firstScored    \* history: card token and bucket of the first scored submission

vars == <<modelFile, encoderFile, hashSeed, cached, model, encoder, form, run, firstScored>>

---------------------------------------------------------------------------
(* Bounds of the model *)

MaxCardLen == 2     \* longest card token typed
MaxSeed == 1        \* string-hash keys 0..MaxSeed
HashBits == 8       \* width of the modelled hash value (CPython: 64)
ProbScale == 4      \* probabilities are multiples of 1/ProbScale

(* Program constants *)

AmtMin == 0         \* number_input(min_value=0.0)
HourMin == 0
HourMax == 23
DayMin == 1
DayMax == 31
MonthMin == 1
MonthMax == 12
BucketCount == 100  \* 10 ** 2

---------------------------------------------------------------------------
(* Python values *)

None == [kind |-> "None"]

\* The card tokens typed: the leading characters of "4111111111111111",
\* as character codes (ord('4') = 52, ord('1') = 49).
CardPrefix(n) == [i \in 1..n |-> IF i = 1 THEN 52 ELSE 49]

CardTokens == {CardPrefix(n) : n \in 0..MaxCardLen}

\* bool(str): the empty string is falsy, every other string truthy.
Truthy(s) == Len(s) > 0

---------------------------------------------------------------------------
(* The artifacts.  A label encoder is its classes_ array; the encoder      *)
(* artifact maps column names to label encoders.  The model artifact is a  *)
(* trained classifier, here a small family of scoring tables.              *)

EncFull ==
    [merchant |-> <<"shop_A", "shop_B">>,
     category |-> <<"grocery", "travel">>,
     gender   |-> <<"Female", "Male">>]

EncNoGender ==
    [merchant |-> <<"shop_A", "shop_B">>,
     category |-> <<"grocery", "travel">>]

EncoderObjects == {[kind |-> "dict", tables |-> t] : t \in {EncFull, EncNoGender}}

ModelObjects == {[kind |-> "LGBMClassifier", bias |-> 1]}

Missing == [status |-> "missing"]
Corrupt == [status |-> "corrupt"]
Stored(obj) == [status |-> "ok", content |-> obj]

\* The deployments considered: both artifacts readable, either one missing,
\* either one unreadable.
Deployments ==
    {<<Stored(m), Stored(e)>> : m \in ModelObjects, e \in EncoderObjects}
    \cup {<<Missing, Stored(e)>> : e \in {[kind |-> "dict", tables |-> EncFull]}}
    \cup {<<Stored(m), Missing>> : m \in ModelObjects}
    \cup {<<Corrupt, Stored(e)>> : e \in {[kind |-> "dict", tables |-> EncFull]}}
    \cup {<<Stored(m), Corrupt>> : m \in ModelObjects}

Seeds == 0..MaxSeed

---------------------------------------------------------------------------
(* load_model, lines 108-116.  joblib.load raises FileNotFoundError for a  *)
(* missing file, which the function catches, and some other exception      *)
(* (UnpicklingError, EOFError, ...) for an unreadable one, which it does   *)
(* not.  The model is read first.                                          *)

load_model(mf, ef) ==
    IF mf.status = "corrupt" THEN [raised |-> TRUE, model |-> None, encoder |-> None]
    ELSE IF mf.status = "missing" THEN [raised |-> FALSE, model |-> None, encoder |-> None]
    ELSE IF ef.status = "corrupt" THEN [raised |-> TRUE, model |-> None, encoder |-> None]
    ELSE IF ef.status = "missing" THEN [raised |-> FALSE, model |-> None, encoder |-> None]
    ELSE [raised |-> FALSE, model |-> mf.content, encoder |-> ef.content]

---------------------------------------------------------------------------
(* haversine, lines 120-121: geopy's geodesic(...).km.  geopy (2.x) builds *)
(* a Point from each pair: a latitude outside [-90, 90] raises ValueError, *)
(* a longitude outside [-180, 180] is wrapped into range.  The length of   *)
(* the geodesic itself is abstracted to 111 km per degree of separation.   *)

Abs(x) == IF x < 0 THEN -x ELSE x

\* math.fmod: the remainder has the sign of x.
Fmod(x, n) == IF x >= 0 THEN x % n ELSE -((-x) % n)

Wrap(modulo, limit) ==
    IF modulo < -limit THEN modulo + 2 * limit
    ELSE IF modulo >= limit THEN modulo - 2 * limit
    ELSE modulo

NormalizeAngle(x, limit) == Wrap(Fmod(x, 2 * limit), limit)

PointLongitude(lon) == IF Abs(lon) > 180 THEN NormalizeAngle(lon, 180) ELSE lon

\* Degrees of longitude between two meridians d degrees apart on the dial.
Around(d) == IF d > 180 THEN 360 - d ELSE d

haversine(lat1, lon1, lat2, lon2) ==
    IF Abs(lat1) > 90 \/ Abs(lat2) > 90
    THEN [raised |-> TRUE, km |-> 0]
    ELSE [raised |-> FALSE,
          km |-> 111 * (Abs(lat1 - lat2)
                        + Around(Abs(PointLongitude(lon1) - PointLongitude(lon2))))]

---------------------------------------------------------------------------
(* LabelEncoder.transform, line 255.  The call returns the position of the *)
(* label in classes_ and raises ValueError for a label not in classes_; it *)
(* leaves the encoder as it was.  The result carries the encoder after the *)
(* call, the raised exception if any, and the code.                        *)

\* LabelEncoder.fit_transform in its place: the encoder is refitted on y.
FitTransform(le, y) == [le |-> <<y>>, raised |-> "none", code |-> 0]

Transform(le, y) ==
    IF \E i \in 1..Len(le) : le[i] = y
    THEN [le |-> le, raised |-> "none", code |-> (CHOOSE i \in 1..Len(le) : le[i] = y) - 1]
    ELSE [le |-> le, raised |-> "ValueError", code |-> 0]

---------------------------------------------------------------------------
(* hash(x) % (10 ** 2), line 260.  hash() of a str is a keyed hash of its  *)
(* characters (the key is drawn per process unless PYTHONHASHSEED fixes    *)
(* it), a signed integer of fixed width, never -1.  Python's % takes the   *)
(* sign of the divisor.                                                    *)

HashMod == 2 ^ HashBits

RECURSIVE HashMix(_, _)
HashMix(h, s) ==
    IF s = <<>> THEN h ELSE HashMix((h * 31 + Head(s)) % HashMod, Tail(s))

\* An unsigned value read as a signed one of the same width; -1 is kept
\* for errors, hash() returns -2 in its place.
Signed(u) ==
    IF u = HashMod - 1 THEN -2
    ELSE IF u >= HashMod \div 2 THEN u - HashMod
    ELSE u

PyHash(seed, s) ==
    IF s = <<>> THEN 0 ELSE Signed(HashMix((seed * 97 + 5) % HashMod, s))

\* C's %: the remainder takes the sign of the dividend.
CRem(a, n) == IF a >= 0 THEN a % n ELSE -((-a) % n)

\* Python's %: for n > 0 the result is in 0..n-1.
PyMod(a, n) == a % n

Bucket(seed, token) == PyMod(PyHash(seed, token), BucketCount)

---------------------------------------------------------------------------
(* LGBMClassifier, lines 263-264.  predict_proba returns the row           *)
(* [P(class 0), P(class 1)]; predict returns the class of the larger one,  *)
(* class 0 on a tie (argmax).  The trained trees are a table from feature  *)
(* rows to P(class 1).                                                     *)

RECURSIVE SumRow(_)
SumRow(row) == IF row = <<>> THEN 0 ELSE Head(row) + SumRow(Tail(row))

\* P(class 1) of a row, in 1/ProbScale.
Score(m, row) == (m.bias + SumRow(row)) % (ProbScale + 1)

Both(p1) == <<ProbScale - p1, p1>>

predict_proba(m, data) == Both(Score(m, data.row))

Argmax(p) == IF p[2] > p[1] THEN 1 ELSE 0

predict(m, data) == Argmax(predict_proba(m, data))

\* f"{p*100:.2f}": a probability as hundredths of a percent, rounded.
FormatPct(p) == (2 * p * 10000 + ProbScale) \div (2 * ProbScale)

---------------------------------------------------------------------------
(* The widgets, lines 172-202: a field's samples are values its widget can *)
(* return.  text_input returns any string, number_input(min_value=0.0) no  *)
(* value below 0, a slider only values of its range, the selectbox one of  *)
(* its two options; the four coordinate inputs have no limits.             *)

Fields ==
    {"merchant", "category", "amt", "lat", "long", "merch_lat", "merch_long",
     "hour", "day", "month", "gender", "cc_num"}

Samples(field) ==
    CASE field = "merchant"   -> {"", "shop_A", "shop_Z"}
      [] field = "category"   -> {"", "grocery", "misc"}
      [] field = "amt"        -> {AmtMin, 100}
      [] field = "lat"        -> {40, 100}
      [] field = "long"       -> {-74, 200}
      [] field = "merch_lat"  -> {40}
      [] field = "merch_long" -> {-73, -190}
      [] field = "hour"       -> {12, HourMax}
      [] field = "day"        -> {15}
      [] field = "month"      -> {6}
      [] field = "gender"     -> {"Male", "Female"}
      [] field = "cc_num"     -> CardTokens

\* The values the widgets hold when a session opens.
Defaults ==
    [merchant |-> "", category |-> "", amt |-> 100,
     lat |-> 40, long |-> -74, merch_lat |-> 40, merch_long |-> -73,
     hour |-> 12, day |-> 15, month |-> 6, gender |-> "Male", cc_num |-> <<>>]

---------------------------------------------------------------------------
(* The prediction section, lines 244-292 *)

Columns ==
    <<"merchant", "category", "amt", "distance", "hour", "day", "month", "gender", "cc_num">>

NoData == [columns |-> <<>>, row |-> <<>>]

\* What a script run did and rendered.
BlankRun(trig) ==
    [trigger    |-> trig,      \* "none", "connect", "edit" or "check"
     exception  |-> "none",    \* the uncaught exception that ended the run
     widgets    |-> FALSE,     \* the input widgets were rendered
     button     |-> FALSE,     \* the check button was rendered
     notice     |-> "none",    \* "validation": st.error of line 292
     encoded    |-> FALSE,     \* the encoding loop was entered
     bucketed   |-> FALSE,     \* the card token was hashed
     predicted  |-> FALSE,     \* model.predict was called
     input_data |-> NoData,    \* the frame handed to the model
     verdict    |-> "none",    \* "fraud" or "legit"
     confidence |-> -1]        \* the confidence shown, in hundredths of a percent

\* The section without its button guard: entered in every run.
ButtonAlways(trig) == TRUE

\* st.button, line 244: True only in the run its click caused.
Pressed(trig) == trig = "check"

\* The guard without the card identifier.
RequiredNoCard(f) == Truthy(f.merchant) /\ Truthy(f.category)

\* Line 245.
Required(f) == Truthy(f.merchant) /\ Truthy(f.category) /\ Truthy(f.cc_num)

\* The except clause of lines 256-257 applied to the outcome t of
\* encoder[col].transform(...): ValueError gives -1.
Encoded(enc, col, t) ==
    [enc    |-> [enc EXCEPT !.tables[col] = t.le],
     raised |-> "none",
     value  |-> IF t.raised = "ValueError" THEN -1 ELSE t.code]

\* One pass of the loop body, lines 254-257, on the value of column col.
\* encoder[col] raises TypeError when encoder is None, which the except
\* clause does not name, and KeyError when the dict has no such key.
EncodeColumn(enc, col, value) ==
    IF enc = None THEN [enc |-> enc, raised |-> "TypeError", value |-> value]
    ELSE IF col \notin DOMAIN enc.tables THEN [enc |-> enc, raised |-> "none", value |-> -1]
    ELSE Encoded(enc, col, Transform(enc.tables[col], value))

Uncaught(c) ==
    [enc |-> c.enc, raised |-> c.raised, merchant |-> 0, category |-> 0, gender |-> 0]

\* A single try around the whole loop: one failure resets every column.
CollectTogether(m, c, g) ==
    IF m.raised # "none" THEN Uncaught(m)
    ELSE IF m.value = -1 \/ c.value = -1 \/ g.value = -1
    THEN [enc |-> g.enc, raised |-> "none", merchant |-> -1, category |-> -1, gender |-> -1]
    ELSE [enc |-> g.enc, raised |-> "none",
          merchant |-> m.value, category |-> c.value, gender |-> g.value]

\* The columns after the loop: an exception leaves the loop at once.
Collect(m, c, g) ==
    IF m.raised # "none" THEN Uncaught(m)
    ELSE IF c.raised # "none" THEN Uncaught(c)
    ELSE [enc |-> g.enc, raised |-> g.raised,
          merchant |-> m.value, category |-> c.value, gender |-> g.value]

EncodeGender(m, c, gender) == Collect(m, c, EncodeColumn(c.enc, "gender", gender))

EncodeCategory(m, category, gender) ==
    EncodeGender(m, EncodeColumn(m.enc, "category", category), gender)

\* The loop of lines 252-257 over merchant, category, gender.
EncodeCategoricals(enc, merchant, category, gender) ==
    EncodeCategory(EncodeColumn(enc, "merchant", merchant), category, gender)

\* The fraud probability under either verdict.
ShownFraudProbability(prediction, proba) == FormatPct(proba[2])

\* Lines 268-283: the confidence under the verdict.
ShownConfidence(prediction, proba) ==
    IF prediction = 1 THEN FormatPct(proba[2]) ELSE FormatPct(proba[1])

\* Lines 248-249 and 260: the frame with its encoded columns e.
InputData(f, distance, e, seed) ==
    [columns |-> Columns,
     row |-> <<e.merchant, e.category, f.amt, distance, f.hour, f.day,
               f.month, e.gender, Bucket(seed, f.cc_num)>>]

\* Lines 263-283: prediction and display.
Display(shown, data, prediction, proba) ==
    [shown EXCEPT
       !.bucketed = TRUE,
       !.predicted = TRUE,
       !.input_data = data,
       !.verdict = IF prediction = 1 THEN "fraud" ELSE "legit",
       !.confidence = ShownConfidence(prediction, proba)]

Predict(shown, mdl, data) ==
    Display(shown, data, predict(mdl, data), predict_proba(mdl, data))

Entered(trig) ==
    [BlankRun(trig) EXCEPT !.widgets = TRUE, !.button = TRUE, !.encoded = TRUE]

Encoding(f, distance, mdl, seed, trig, e) ==
    IF e.raised # "none"
    THEN [encoder |-> e.enc, run |-> [Entered(trig) EXCEPT !.exception = e.raised]]
    ELSE [encoder |-> e.enc,
          run |-> Predict(Entered(trig), mdl, InputData(f, distance, e, seed))]

\* Lines 246-289, entered with the required fields filled.
Handler(f, distance, mdl, enc, seed, trig) ==
    Encoding(f, distance, mdl, seed, trig,
             EncodeCategoricals(enc, f.merchant, f.category, f.gender))

---------------------------------------------------------------------------
(* One run of the script, lines 108-301, on the widget values f.           *)

Rendered(trig) == [BlankRun(trig) EXCEPT !.widgets = TRUE]

Loaded(l, encoderAfter, r) ==
    [cached |-> TRUE, model |-> l.model, encoder |-> encoderAfter, run |-> r]

Submitted(f, trig, l, h) == Loaded(l, h.encoder, h.run)

\* Lines 120-301, with l what load_model() returned and d the distance.
Page(f, trig, l, d) ==
    IF l.raised
    THEN \* line 118 raises: nothing is cached, nothing below is rendered
         [cached |-> FALSE, model |-> None, encoder |-> None,
          run |-> [BlankRun(trig) EXCEPT !.exception = "load"]]
    ELSE IF d.raised
    THEN \* line 210 raises after the widgets of the left column
         Loaded(l, l.encoder, [Rendered(trig) EXCEPT !.exception = "ValueError"])
    ELSE IF ~Pressed(trig)
    THEN Loaded(l, l.encoder, [Rendered(trig) EXCEPT !.button = TRUE])
    ELSE IF ~Required(f)
    THEN Loaded(l, l.encoder,
                [Rendered(trig) EXCEPT !.button = TRUE, !.notice = "validation"])
    ELSE Submitted(f, trig, l, Handler(f, d.km, l.model, l.encoder, hashSeed, trig))

\* st.cache_resource, line 108: load_model runs when nothing is cached.
CachedLoad ==
    IF cached
    THEN [raised |-> FALSE, model |-> model, encoder |-> encoder]
    ELSE load_model(modelFile, encoderFile)

Script(f, trig) ==
    Page(f, trig, CachedLoad, haversine(f.lat, f.long, f.merch_lat, f.merch_long))

NoScore == [card |-> <<>>, bucket |-> -1]

Commit(f, s) ==
    /\ form' = f
    /\ cached' = s.cached
    /\ model' = s.model
    /\ encoder' = s.encoder
    /\ run' = s.run
    /\ firstScored' = IF firstScored = NoScore /\ s.run.bucketed
                      THEN [card |-> f.cc_num, bucket |-> s.run.input_data.row[9]]
                      ELSE firstScored
    /\ UNCHANGED <<modelFile, encoderFile, hashSeed>>

Rerun(f, trig) == Commit(f, Script(f, trig))

---------------------------------------------------------------------------
(* The system *)

Boot(dep, seed) ==
    /\ modelFile = dep[1]
    /\ encoderFile = dep[2]
    /\ hashSeed = seed
    /\ cached = FALSE
    /\ model = None
    /\ encoder = None
    /\ form = Defaults
    /\ run = BlankRun("none")

Init ==
    /\ \E dep \in Deployments, seed \in Seeds : Boot(dep, seed)
    /\ firstScored = NoScore

\* A browser opens the page: the first run of the session.
Connect ==
    /\ run.trigger = "none"
    /\ Rerun(form, "connect")

\* The user changes one widget: Streamlit reruns the script.
EditField ==
    /\ run.widgets
    /\ \E field \in Fields :
         \E v \in Samples(field) :
            /\ v # form[field]
            /\ Rerun([form EXCEPT ![field] = v], "edit")

\* The user clicks "Check for Fraud": Streamlit reruns the script.
CheckForFraud ==
    /\ run.button
    /\ Rerun(form, "check")

\* The server process is stopped and started again, possibly on other files.
Restart ==
    /\ \E dep \in Deployments, seed \in Seeds :
          /\ modelFile' = dep[1]
          /\ encoderFile' = dep[2]
          /\ hashSeed' = seed
    /\ cached' = FALSE
    /\ model' = None
    /\ encoder' = None
    /\ form' = Defaults
    /\ run' = BlankRun("none")
    /\ UNCHANGED firstScored

Next == Connect \/ EditField \/ CheckForFraud \/ Restart

Spec == Init /\ [][Next]_vars

---------------------------------------------------------------------------
(* Properties *)

Row == run.input_data.row

\* The code the encoder artifact on disk assigns to a label of a column:
\* its position in the column's classes, -1 where there is none.
Known(col, value) ==
    /\ encoderFile.status = "ok"
    /\ col \in DOMAIN encoderFile.content.tables
    /\ \E i \in 1..Len(encoderFile.content.tables[col]) :
          encoderFile.content.tables[col][i] = value

AssignedCode(col, value) ==
    IF Known(col, value)
    THEN (CHOOSE i \in 1..Len(encoderFile.content.tables[col]) :
             encoderFile.content.tables[col][i] = value) - 1
    ELSE -1

Unavailable == modelFile.status # "ok" \/ encoderFile.status # "ok"

\* C1: with an artifact missing or unreadable, a check action attempts no
\* encoding, no bucketing and no model call, and raises no uncaught exception.
C1_ClassifyDisabledWhenUnavailable ==
    (Unavailable /\ run.trigger = "check")
        => /\ run.exception = "none"
           /\ ~run.encoded
           /\ ~run.bucketed
           /\ ~run.predicted

\* C2: a check action with merchant, category or card identifier empty calls
\* no classifier, builds no feature row and shows the validation error
\* instead of a verdict.
C2_EmptyRequiredFieldBlocksClassify ==
    (run.trigger = "check"
     /\ (form.merchant = "" \/ form.category = "" \/ form.cc_num = <<>>))
        => /\ ~run.encoded
           /\ ~run.bucketed
           /\ ~run.predicted
           /\ run.input_data = NoData
           /\ run.verdict = "none"
           /\ run.notice = "validation"

C2_Witness ==
    /\ run.trigger = "check"
    /\ form.merchant # ""
    /\ form.category # ""
    /\ form.cc_num = <<>>
    /\ cached
    /\ model # None
    /\ run.notice = "validation"

\* C3: encoding merchant, category and gender never fails: once the encoding
\* loop is entered no exception leaves it, and each column holds the code the
\* encoder assigns to its value, or -1 where the value is unseen or the
\* column's encoder is unavailable.
C3_EncodeNeverFails ==
    run.encoded
        => /\ run.exception = "none"
           /\ Row[1] = AssignedCode("merchant", form.merchant)
           /\ Row[2] = AssignedCode("category", form.category)
           /\ Row[8] = AssignedCode("gender", form.gender)

\* C4: a card token gets the bucket it got in the first scored submission,
\* whichever process computes it.
C4_SameBucketAcrossRestarts ==
    (run.bucketed /\ firstScored # NoScore /\ firstScored.card = form.cc_num)
        => Row[9] = firstScored.bucket

\* C5: the card bucket handed to the classifier is an integer in [0,99],
\* whatever the sign of the hash value.
C5_BucketInRange ==
    run.bucketed => Row[9] \in 0..(BucketCount - 1)

C5_Witness ==
    /\ run.bucketed
    /\ PyHash(hashSeed, form.cc_num) < 0
    /\ Row[9] > 0

\* The pair of class probabilities the loaded model gives the scored row.
ScoredProba == predict_proba(modelFile.content, run.input_data)

\* C6: the confidence shown is the probability of the class of the verdict
\* shown, lies in [0,1] (0% to 100%), and is the larger of the two class
\* probabilities.
C6_ConfidenceIsPredictedClassProbability ==
    /\ run.verdict = "fraud"
          => /\ run.confidence = FormatPct(ScoredProba[2])
             /\ ScoredProba[2] >= ScoredProba[1]
    /\ run.verdict = "legit"
          => /\ run.confidence = FormatPct(ScoredProba[1])
             /\ ScoredProba[1] >= ScoredProba[2]
    /\ run.verdict # "none"
          => /\ run.confidence \in 0..10000
             /\ ScoredProba[1] \in 0..ProbScale
             /\ ScoredProba[2] \in 0..ProbScale

C6_Witness ==
    /\ run.verdict = "legit"
    /\ ScoredProba[1] > ScoredProba[2]
    /\ ScoredProba[2] > 0
    /\ run.confidence = FormatPct(ScoredProba[1])

\* C7: a verdict is shown only for a submission whose required texts are
\* non-empty and whose numeric fields are all within their declared ranges.
C7_ScoredOnlyWithinDeclaredRanges ==
    run.verdict # "none"
        => /\ Required(form)
           /\ form.amt >= AmtMin
           /\ form.hour \in HourMin..HourMax
           /\ form.day \in DayMin..DayMax
           /\ form.month \in MonthMin..MonthMax
           /\ form.lat \in -90..90
           /\ form.merch_lat \in -90..90
           /\ form.long \in -180..180
           /\ form.merch_long \in -180..180

\* C8: only a run caused by the check action calls the classifier or shows a
\* verdict, and a verdict on the screen is the verdict of the inputs on the
\* screen.
C8_VerdictOnlyOnCheck ==
    /\ run.trigger # "check"
          => /\ run.verdict = "none"
             /\ ~run.predicted
             /\ run.input_data = NoData
    /\ run.verdict # "none"
          => /\ Row[3] = form.amt
             /\ Row[5] = form.hour
             /\ Row[9] = Bucket(hashSeed, form.cc_num)

C8_Witness ==
    /\ run.trigger = "edit"
    /\ Required(form)
    /\ run.button
    /\ model # None
    /\ firstScored # NoScore
    /\ run.verdict = "none"

\* The feature row and the outcome computed from the inputs on the screen,
\* the artifacts as they are on disk and the process' hash key.
PureData ==
    InputData(form,
              haversine(form.lat, form.long, form.merch_lat, form.merch_long).km,
              EncodeCategoricals(encoderFile.content, form.merchant, form.category,
                                 form.gender),
              hashSeed)

PureRun == Predict(Entered("check"), modelFile.content, PureData)

\* C9: a submission's feature row and outcome are a function of its inputs
\* and of the artifacts as loaded: the cached model and encoder stay what was
\* loaded, whatever was submitted before.
C9_SubmissionIsPureFunctionOfInputs ==
    /\ (cached /\ model # None)
          => /\ model = modelFile.content
             /\ encoder = encoderFile.content
    /\ run.verdict # "none"
          => /\ run.input_data = PureData
             /\ run.verdict = PureRun.verdict
             /\ run.confidence = PureRun.confidence

C9_Witness ==
    /\ run.verdict # "none"
    /\ firstScored # NoScore
    /\ firstScored.card # form.cc_num
    /\ firstScored.bucket = Bucket(hashSeed, firstScored.card)

\* C10: in the row handed to the classifier each categorical column holds
\* its own code, -1 only where its own value is unseen, amount, distance,
\* hour, day and month are the submitted values, and the columns are in the
\* order merchant, category, amt, distance, hour, day, month, gender, cc_num.
C10_PerFieldFallbackAndFrame ==
    run.predicted
        => /\ run.input_data.columns = Columns
           /\ Row[1] = AssignedCode("merchant", form.merchant)
           /\ Row[2] = AssignedCode("category", form.category)
           /\ Row[3] = form.amt
           /\ Row[4] = haversine(form.lat, form.long, form.merch_lat, form.merch_long).km
           /\ Row[5] = form.hour
           /\ Row[6] = form.day
           /\ Row[7] = form.month
           /\ Row[8] = AssignedCode("gender", form.gender)

C10_Witness ==
    /\ run.predicted
    /\ ~Known("merchant", form.merchant)
    /\ Known("category", form.category)
    /\ Row[1] = -1
    /\ Row[2] >= 0
    /\ Row[8] >= 0

====
